---- MODULE Spec2Model ----
(***************************************************************************)
(* snakemonkey: flattening of SurveyMonkey bulk responses into flat        *)
(* records (Survey.parse_survey with Transformer), the column index        *)
(* (Survey.get_all_column_names), the catalog built by Client.get_survey   *)
(* with its label pipeline (strip_tags, clean_column), and the paged fetch *)
(* of the responses (Survey.get_all_survey_responses).                     *)
(*                                                                         *)
(* Text is modelled at character level: a Python str is a sequence of      *)
(* characters, each character a one-character string (plus the tokens      *)
(* "TAB", "LF", "NBSP", "QUOTE", "BACKSLASH" and "BACKTICK" for U+0009,   *)
(* U+000A, U+00A0, U+0022, U+005C and U+0060), so that concatenation,      *)
(* whitespace handling,                                                    *)
(* the digit test and the code-point order of sorted() are computed and    *)
(* not assumed.                                                            *)
(***************************************************************************)
EXTENDS Integers, Sequences, FiniteSets, TLC

(***************************************************************************)
(* Characters and strings                                                  *)
(***************************************************************************)

\* The printable ASCII characters in code-point order, U+0020 .. U+007E.
Ascii ==
    <<" ", "!", "QUOTE", "#", "$", "%", "&", "'", "(", ")", "*", "+", ",", "-", ".", "/",
      "0", "1", "2", "3", "4", "5", "6", "7", "8", "9", ":", ";", "<", "=", ">", "?",
      "@", "A", "B", "C", "D", "E", "F", "G", "H", "I", "J", "K", "L", "M", "N", "O",
      "P", "Q", "R", "S", "T", "U", "V", "W", "X", "Y", "Z", "[", "BACKSLASH", "]", "^", "_",
      "BACKTICK", "a", "b", "c", "d", "e", "f", "g", "h", "i", "j", "k", "l", "m", "n", "o",
      "p", "q", "r", "s", "t", "u", "v", "w", "x", "y", "z", "{", "|", "}", "~">>

AsciiChars == {Ascii[i] : i \in 1..Len(Ascii)}

\* ord(c): the code point of each character modelled.
CodePoint ==
    (" " :> 32) @@ ("!" :> 33) @@ ("QUOTE" :> 34) @@ ("#" :> 35) @@ ("$" :> 36) @@ ("%" :> 37)
    @@ ("&" :> 38) @@ ("'" :> 39) @@ ("(" :> 40) @@ (")" :> 41) @@ ("*" :> 42) @@ ("+" :> 43)
    @@ ("," :> 44) @@ ("-" :> 45) @@ ("." :> 46) @@ ("/" :> 47) @@ ("0" :> 48) @@ ("1" :> 49)
    @@ ("2" :> 50) @@ ("3" :> 51) @@ ("4" :> 52) @@ ("5" :> 53) @@ ("6" :> 54) @@ ("7" :> 55)
    @@ ("8" :> 56) @@ ("9" :> 57) @@ (":" :> 58) @@ (";" :> 59) @@ ("<" :> 60) @@ ("=" :> 61)
    @@ (">" :> 62) @@ ("?" :> 63) @@ ("@" :> 64) @@ ("A" :> 65) @@ ("B" :> 66) @@ ("C" :> 67)
    @@ ("D" :> 68) @@ ("E" :> 69) @@ ("F" :> 70) @@ ("G" :> 71) @@ ("H" :> 72) @@ ("I" :> 73)
    @@ ("J" :> 74) @@ ("K" :> 75) @@ ("L" :> 76) @@ ("M" :> 77) @@ ("N" :> 78) @@ ("O" :> 79)
    @@ ("P" :> 80) @@ ("Q" :> 81) @@ ("R" :> 82) @@ ("S" :> 83) @@ ("T" :> 84) @@ ("U" :> 85)
    @@ ("V" :> 86) @@ ("W" :> 87) @@ ("X" :> 88) @@ ("Y" :> 89) @@ ("Z" :> 90) @@ ("[" :> 91)
    @@ ("BACKSLASH" :> 92) @@ ("]" :> 93) @@ ("^" :> 94) @@ ("_" :> 95) @@ ("BACKTICK" :> 96) @@ ("a" :> 97)
    @@ ("b" :> 98) @@ ("c" :> 99) @@ ("d" :> 100) @@ ("e" :> 101) @@ ("f" :> 102) @@ ("g" :> 103)
    @@ ("h" :> 104) @@ ("i" :> 105) @@ ("j" :> 106) @@ ("k" :> 107) @@ ("l" :> 108) @@ ("m" :> 109)
    @@ ("n" :> 110) @@ ("o" :> 111) @@ ("p" :> 112) @@ ("q" :> 113) @@ ("r" :> 114) @@ ("s" :> 115)
    @@ ("t" :> 116) @@ ("u" :> 117) @@ ("v" :> 118) @@ ("w" :> 119) @@ ("x" :> 120) @@ ("y" :> 121)
    @@ ("z" :> 122) @@ ("{" :> 123) @@ ("|" :> 124) @@ ("}" :> 125) @@ ("~" :> 126) @@ ("TAB" :> 9)
    @@ ("LF" :> 10) @@ ("NBSP" :> 160)

Ord(c) == CodePoint[c]

\* str.isdigit() of one character
IsDigit(c) == c \in {"0", "1", "2", "3", "4", "5", "6", "7", "8", "9"}

\* str.isspace() of one character
IsSpace(c) == c \in {" ", "TAB", "LF", "NBSP"}

\* Python's None, kept apart from every str (no str has a character "None").
None == <<"None">>

\* a < b on str: code-point lexicographic order.
RECURSIVE StrLessFrom(_, _, _)
StrLessFrom(a, b, i) ==
    IF i > Len(a) THEN i <= Len(b)
    ELSE IF i > Len(b) THEN FALSE
    ELSE IF a[i] = b[i] THEN StrLessFrom(a, b, i + 1)
    ELSE Ord(a[i]) < Ord(b[i])

StrLess(a, b) == StrLessFrom(a, b, 1)

\* " " in c
HasSpace(c) == \E i \in 1..Len(c) : c[i] = " "

\* " - ".join([a, b])
Join(a, b) == a \o <<" ", "-", " ">> \o b

\* The elements of a list, as a set.
Range(s) == {s[i] : i \in 1..Len(s)}

\* sorted as it would be were the list left in the order it came.
Unsorted(xs) == xs

\* sorted(xs) for a list of str: ascending, by insertion.
RECURSIVE InsertSorted(_, _)
InsertSorted(x, s) ==
    IF s = <<>> THEN <<x>>
    ELSE IF StrLess(Head(s), x) THEN <<Head(s)>> \o InsertSorted(x, Tail(s))
    ELSE <<x>> \o s

RECURSIVE SortedFrom(_, _)
SortedFrom(xs, acc) ==
    IF xs = <<>> THEN acc ELSE SortedFrom(Tail(xs), InsertSorted(Head(xs), acc))

sorted(xs) == SortedFrom(xs, <<>>)

(***************************************************************************)
(* utils.py                                                                *)
(***************************************************************************)

\* unicodedata.normalize("NFKC", col): of the characters modelled only
\* U+00A0 has a compatibility decomposition (to U+0020).
RECURSIVE NFKC(_)
NFKC(s) ==
    IF s = <<>> THEN <<>>
    ELSE <<IF Head(s) = "NBSP" THEN " " ELSE Head(s)>> \o NFKC(Tail(s))

\* str.split() without arguments: the maximal runs of non-whitespace.
RECURSIVE SplitFrom(_, _, _)
SplitFrom(s, cur, acc) ==
    IF s = <<>> THEN (IF cur = <<>> THEN acc ELSE Append(acc, cur))
    ELSE IF IsSpace(Head(s))
         THEN SplitFrom(Tail(s), <<>>, IF cur = <<>> THEN acc ELSE Append(acc, cur))
         ELSE SplitFrom(Tail(s), Append(cur, Head(s)), acc)

Split(s) == SplitFrom(s, <<>>, <<>>)

\* " ".join(words)
RECURSIVE JoinSpace(_)
JoinSpace(ws) ==
    IF ws = <<>> THEN <<>>
    ELSE IF Len(ws) = 1 THEN Head(ws)
    ELSE Head(ws) \o <<" ">> \o JoinSpace(Tail(ws))

\* utils.clean_column
clean_column(col) == JoinSpace(Split(NFKC(col)))

\* str.strip(): leading and trailing whitespace removed.
RECURSIVE LStrip(_)
LStrip(s) == IF s # <<>> /\ IsSpace(Head(s)) THEN LStrip(Tail(s)) ELSE s

RECURSIVE RStrip(_)
RStrip(s) ==
    IF s # <<>> /\ IsSpace(s[Len(s)]) THEN RStrip(SubSeq(s, 1, Len(s) - 1)) ELSE s

Strip(s) == RStrip(LStrip(s))

IsLetter(c) == c \in AsciiChars /\ ((Ord(c) >= 65 /\ Ord(c) <= 90) \/ (Ord(c) >= 97 /\ Ord(c) <= 122))

\* s.find(c, i), 1-based: the first position >= i holding c, 0 when there is none.
Find(s, c, i) ==
    IF \E j \in i..Len(s) : s[j] = c
    THEN CHOOSE j \in i..Len(s) : s[j] = c /\ \A k \in i..(j - 1) : s[k] # c
    ELSE 0

\* s[i:].startswith(p), 1-based
StartsWithAt(s, p, i) ==
    i + Len(p) - 1 <= Len(s) /\ \A k \in 1..Len(p) : s[i + k - 1] = p[k]

\* The entity names modelled, each with the text it stands for
\* (html.entities.html5 lists them with and without the closing ";").
Entities ==
    << <<<<"a", "m", "p">>, <<"&">>>>,
       <<<<"l", "t">>, <<"<">>>>,
       <<<<"g", "t">>, <<">">>>>,
       <<<<"n", "b", "s", "p">>, <<"NBSP">>>> >>

\* html.unescape: a "&" followed by a modelled entity name is replaced by the
\* entity's text, together with the ";" when one follows the name.
RECURSIVE Unescape(_)
Unescape(s) ==
    IF s = <<>> THEN <<>>
    ELSE IF Head(s) = "&" /\ \E e \in 1..Len(Entities) : StartsWithAt(s, Entities[e][1], 2)
    THEN LET e == CHOOSE x \in 1..Len(Entities) : StartsWithAt(s, Entities[x][1], 2)
             after == 2 + Len(Entities[e][1])
             next == IF after <= Len(s) /\ s[after] = ";" THEN after + 1 ELSE after
         IN  Entities[e][2] \o Unescape(SubSeq(s, next, Len(s)))
    ELSE <<Head(s)>> \o Unescape(Tail(s))

\* HTMLParser.goahead(end=False) with convert_charrefs, from position i, the
\* text handed to handle_data so far being out.  Tags are "<" + letter ... ">"
\* and "</" ... ">"; comments, declarations, processing instructions, quoted
\* attribute values and script/style content are outside the model.
RECURSIVE GoAhead(_, _, _)
GoAhead(s, i, out) ==
    LET n == Len(s)
        j == Find(s, "<", i)
    IN
    IF i > n THEN out
    ELSE IF j = 0
    THEN \* no further "<": the text is held back when a "&" among the last 34
         \* characters is followed by neither whitespace nor ";"
         LET lo == IF n - 33 > i THEN n - 33 ELSE i
             amps == {k \in lo..n : s[k] = "&"}
             amppos == CHOOSE k \in amps : \A m \in amps : m <= k
         IN  IF amps # {} /\ ~(\E m \in amppos..n : IsSpace(s[m]) \/ s[m] = ";")
             THEN out
             ELSE out \o Unescape(SubSeq(s, i, n))
    ELSE LET text == out \o Unescape(SubSeq(s, i, j - 1))
             gt == Find(s, ">", j + 1)
         IN  IF j < n /\ (IsLetter(s[j + 1]) \/ s[j + 1] = "/")
             THEN \* a start or end tag: dropped up to its ">", and when the ">"
                  \* has not arrived the rest stays in the buffer
                  IF gt = 0 THEN text ELSE GoAhead(s, gt + 1, text)
             ELSE IF j < n
             THEN GoAhead(s, j + 1, Append(text, "<"))
             ELSE text

\* utils.strip_tags: HTMLRemover().feed(text), then the text collected;
\* close() is never called, so what feed leaves in the buffer is lost.
strip_tags(text) == GoAhead(text, 1, <<>>)

(***************************************************************************)
(* Python dicts: a dict is the sequence of its <<key, value>> items in     *)
(* insertion order, with no key twice.                                     *)
(***************************************************************************)

Keys(d) == {d[i][1] : i \in 1..Len(d)}

\* k in d
DictHas(d, k) == \E i \in 1..Len(d) : d[i][1] = k

\* d[k], for a key of d
DictGet(d, k) == d[CHOOSE i \in 1..Len(d) : d[i][1] = k][2]

\* d[k] = v: a present key keeps its place, a new key goes last.
DictSet(d, k, v) ==
    IF DictHas(d, k)
    THEN [i \in 1..Len(d) |-> IF d[i][1] = k THEN <<k, v>> ELSE d[i]]
    ELSE Append(d, <<k, v>>)

\* bool(d.get(k)) for str values: the key is present with a non-empty value.
Truthy(d, k) == DictHas(d, k) /\ DictGet(d, k) # <<>> /\ DictGet(d, k) # None

\* The outcome of a call: the exception raised ("" when none) and the value
\* returned.
Return(v) == [exc |-> "", val |-> v]
Raise(e) == [exc |-> e, val |-> <<>>]

(***************************************************************************)
(* transformer.py                                                          *)
(***************************************************************************)

\* Transformer.arrange_text_field: <<question_text, answer_text>>
arrange_text_field(qs, ans, question_id, answer) ==
    IF ~DictHas(qs, question_id) \/ ~DictHas(answer, "other_id")
       \/ ~DictHas(ans, DictGet(answer, "other_id")) \/ ~DictHas(answer, "text")
    THEN Raise("KeyError")
    ELSE Return(<<Join(DictGet(qs, question_id), DictGet(ans, DictGet(answer, "other_id"))),
                  DictGet(answer, "text")>>)

\* Transformer.process_matrix, the loop over question["answers"] from row on.
RECURSIVE MatrixLoop(_, _, _, _, _)
MatrixLoop(qs, ans, question_id, todo, row) ==
    IF todo = <<>> THEN Return(row)
    ELSE LET answer == Head(todo) IN
         IF ~DictHas(qs, question_id) \/ ~DictHas(answer, "row_id")
            \/ ~DictHas(ans, DictGet(answer, "row_id"))
         THEN Raise("ValueError")
         ELSE IF ~DictHas(answer, "choice_id") \/ ~DictHas(ans, DictGet(answer, "choice_id"))
         THEN Raise("KeyError")
         ELSE MatrixLoop(qs, ans, question_id, Tail(todo),
                         DictSet(row,
                                 Join(DictGet(qs, question_id), DictGet(ans, DictGet(answer, "row_id"))),
                                 DictGet(ans, DictGet(answer, "choice_id"))))

process_matrix(qs, ans, question) == MatrixLoop(qs, ans, question.id, question.answers, <<>>)

\* Transformer.process_multiple_choice, the loop over question["answers"].
RECURSIVE MultipleChoiceLoop(_, _, _, _, _)
MultipleChoiceLoop(qs, ans, question_id, todo, row) ==
    IF todo = <<>> THEN Return(row)
    ELSE LET answer == Head(todo) IN
         IF Truthy(answer, "other_id")
         THEN LET f == arrange_text_field(qs, ans, question_id, answer) IN
              IF f.exc # "" THEN f
              ELSE MultipleChoiceLoop(qs, ans, question_id, Tail(todo),
                                      DictSet(row, f.val[1], f.val[2]))
         ELSE IF ~DictHas(answer, "choice_id") \/ ~DictHas(ans, DictGet(answer, "choice_id"))
                 \/ ~DictHas(qs, question_id)
         THEN Raise("KeyError")
         ELSE LET answer_text == DictGet(ans, DictGet(answer, "choice_id")) IN
              MultipleChoiceLoop(qs, ans, question_id, Tail(todo),
                                 DictSet(row, Join(DictGet(qs, question_id), answer_text),
                                         answer_text))

process_multiple_choice(qs, ans, question) ==
    MultipleChoiceLoop(qs, ans, question.id, question.answers, <<>>)

\* IsIdToken as it would be were the length test off by one.
IsIdTokenLonger(value) == Len(value) > 9 /\ \A i \in 1..Len(value) : IsDigit(value[i])

\* len(value) >= 9 and all([char.isdigit() for char in value])
IsIdToken(value) == Len(value) >= 9 /\ \A i \in 1..Len(value) : IsDigit(value[i])

\* Transformer.process_single_choice, the loop over question["answers"].
RECURSIVE SingleChoiceLoop(_, _, _, _, _)
SingleChoiceLoop(qs, ans, question_id, todo, row) ==
    IF todo = <<>> THEN Return(row)
    ELSE LET answer == Head(todo) IN
         IF Truthy(answer, "other_id")
         THEN LET f == arrange_text_field(qs, ans, question_id, answer) IN
              IF f.exc # "" THEN f
              ELSE SingleChoiceLoop(qs, ans, question_id, Tail(todo),
                                    DictSet(row, f.val[1], f.val[2]))
         ELSE IF Len(answer) > 1 THEN Raise("ValueError")
         ELSE IF answer = <<>> THEN SingleChoiceLoop(qs, ans, question_id, Tail(todo), row)
         ELSE LET value == answer[1][2] IN
              IF IsIdToken(value)
              THEN IF ~DictHas(qs, question_id) \/ ~DictHas(ans, value)
                   THEN Raise("KeyError")
                   ELSE SingleChoiceLoop(qs, ans, question_id, Tail(todo),
                                         DictSet(row, DictGet(qs, question_id),
                                                 DictGet(ans, value)))
              ELSE Raise("ValueError")

process_single_choice(qs, ans, question) ==
    SingleChoiceLoop(qs, ans, question.id, question.answers, <<>>)

\* Transformer.process_datetime
process_datetime(qs, ans, question) ==
    IF question.answers = <<>> THEN Raise("IndexError")
    ELSE LET answer == question.answers[1] IN
         IF ~DictHas(qs, question.id) \/ ~DictHas(answer, "row_id")
            \/ ~DictHas(ans, DictGet(answer, "row_id")) \/ ~DictHas(answer, "text")
         THEN Raise("KeyError")
         ELSE Return(<< <<Join(DictGet(qs, question.id), DictGet(ans, DictGet(answer, "row_id"))),
                          DictGet(answer, "text")>> >>)

\* Transformer.process_open_ended
process_open_ended(qs, ans, question) ==
    IF question.answers = <<>> THEN Raise("IndexError")
    ELSE LET answer == question.answers[1] IN
         IF ~DictHas(answer, "text") \/ ~DictHas(qs, question.id)
         THEN Raise("KeyError")
         ELSE Return(<< <<DictGet(qs, question.id), DictGet(answer, "text")>> >>)

(***************************************************************************)
(* client.py: the catalog                                                  *)
(***************************************************************************)

\* [question for page in details["pages"] for question in page["questions"]]
RECURSIVE DetailQuestions(_)
DetailQuestions(pages) ==
    IF pages = <<>> THEN <<>> ELSE Head(pages).questions \o DetailQuestions(Tail(pages))

\* bool(question["answers"].get(key)) for "rows" and "choices" (a list) and
\* "other" (a dict with id and text)
HasEntries(answers, key) ==
    DictHas(answers, key) /\ (key = "other" \/ DictGet(answers, key) # <<>>)

\* Registration that keeps the label an id already has.
RECURSIVE RegisterAllKeepFirst(_, _)
RegisterAllKeepFirst(answers, entries) ==
    IF entries = <<>> THEN answers
    ELSE RegisterAllKeepFirst(IF DictHas(answers, Head(entries).id) THEN answers
                              ELSE DictSet(answers, Head(entries).id, Strip(Head(entries).text)),
                              Tail(entries))

\* for entry in entries: answers[entry["id"]] = entry["text"].strip()
RECURSIVE RegisterAll(_, _)
RegisterAll(answers, entries) ==
    IF entries = <<>> THEN answers
    ELSE RegisterAll(DictSet(answers, Head(entries).id, Strip(Head(entries).text)),
                     Tail(entries))

\* Client.get_survey, the body of the loop over the questions: what one
\* question adds to answers.
RegisterQuestion(answers, question) ==
    IF question.answers = <<>> THEN answers
    ELSE LET a1 == IF HasEntries(question.answers, "rows")
                   THEN RegisterAll(answers, DictGet(question.answers, "rows"))
                   ELSE answers
             a2 == IF HasEntries(question.answers, "choices")
                   THEN RegisterAll(a1, DictGet(question.answers, "choices"))
                   ELSE a1
         IN  IF HasEntries(question.answers, "other")
             THEN RegisterAll(a2, <<DictGet(question.answers, "other")>>)
             ELSE a2

\* Client.get_survey, the loop: the three dicts before cleaning, or the
\* exception of a question without a heading.
RECURSIVE CatalogLoop(_, _, _, _)
CatalogLoop(todo, fams, qs, ans) ==
    IF todo = <<>> THEN Return([families |-> fams, questions |-> qs, answers |-> ans])
    ELSE LET question == Head(todo) IN
         IF question.headings = <<>> THEN Raise("IndexError")
         ELSE CatalogLoop(Tail(todo),
                          DictSet(fams, question.id, question.family),
                          DictSet(qs, question.id, strip_tags(question.headings[1].heading)),
                          RegisterQuestion(ans, question))

\* {k: clean_column(v) for k, v in d.items()}
CleanValues(d) == [i \in 1..Len(d) |-> <<d[i][1], clean_column(d[i][2])>>]

\* Client.get_survey: the families, questions and answers of the Survey it
\* returns.  A family tag is kept as it is: clean_column changes no tag, none
\* holding whitespace or a compatibility character.
get_survey(details) ==
    LET r == CatalogLoop(DetailQuestions(details.pages), <<>>, <<>>, <<>>) IN
    IF r.exc # "" THEN r
    ELSE Return([families |-> r.val.families,
                 questions |-> CleanValues(r.val.questions),
                 answers |-> CleanValues(r.val.answers)])

(***************************************************************************)
(* survey.py: the column index                                             *)
(***************************************************************************)

\* [" - ".join([question_text, option["text"]]) for option in options]
RECURSIVE OptionColumns(_, _)
OptionColumns(question_text, options) ==
    IF options = <<>> THEN <<>>
    ELSE <<Join(question_text, Head(options).text)>>
         \o OptionColumns(question_text, Tail(options))

\* get_all_column_names, family multiple_choice: for key in question["answers"]
RECURSIVE MultipleChoiceColumns(_, _)
MultipleChoiceColumns(question_text, answers) ==
    IF answers = <<>> THEN <<>>
    ELSE (IF Head(answers)[1] = "other"
          THEN <<Join(question_text, Head(answers)[2].text)>>
          ELSE OptionColumns(question_text, Head(answers)[2]))
         \o MultipleChoiceColumns(question_text, Tail(answers))

\* get_all_column_names, the last branch: for key in question["answers"].keys()
\* (iterating the dict under "other" yields its keys, and indexing a key with
\* "text" raises TypeError)
RECURSIVE OtherFamilyColumns(_, _)
OtherFamilyColumns(question_text, answers) ==
    IF answers = <<>> THEN Return(<<>>)
    ELSE IF Head(answers)[1] = "other" THEN Raise("TypeError")
    ELSE LET rest == OtherFamilyColumns(question_text, Tail(answers)) IN
         IF rest.exc # "" THEN rest
         ELSE Return(OptionColumns(question_text, Head(answers)[2]) \o rest.val)

\* get_all_column_names, the body of the loop: the columns of one question.
QuestionColumns(question) ==
    IF question.answers = <<>> THEN Return(<<>>)
    ELSE IF question.headings = <<>> THEN Raise("IndexError")
    ELSE LET question_text == strip_tags(question.headings[1].heading) IN
         IF question.family = "single_choice"
         THEN Return((IF DictHas(question.answers, "other")
                      THEN <<Join(question_text, DictGet(question.answers, "other").text)>>
                      ELSE <<>>) \o <<question_text>>)
         ELSE IF question.family = "multiple_choice"
         THEN Return(MultipleChoiceColumns(question_text, question.answers))
         ELSE IF question.family = "matrix"
         THEN IF DictHas(question.answers, "rows")
              THEN Return(OptionColumns(question_text, DictGet(question.answers, "rows")))
              ELSE Raise("KeyError")
         ELSE OtherFamilyColumns(question_text, question.answers)

\* get_all_column_names, the loop over the pages and questions: columns.
RECURSIVE ColumnsLoop(_, _)
ColumnsLoop(todo, columns) ==
    IF todo = <<>> THEN Return(columns)
    ELSE LET c == QuestionColumns(Head(todo)) IN
         IF c.exc # "" THEN c ELSE ColumnsLoop(Tail(todo), columns \o c.val)

\* [f(x) for x in xs]
CleanAll(xs) == [i \in 1..Len(xs) |-> clean_column(xs[i])]

\* The first occurrences of xs, in order.
RECURSIVE Dedup(_, _)
Dedup(xs, acc) ==
    IF xs = <<>> THEN acc
    ELSE Dedup(Tail(xs), IF \E i \in 1..Len(acc) : acc[i] = Head(xs) THEN acc ELSE Append(acc, Head(xs)))

Reverse(s) == [i \in 1..Len(s) |-> s[Len(s) + 1 - i]]

Rotate(s, r) == [i \in 1..Len(s) |-> s[((i - 1 + r) % Len(s)) + 1]]

\* How far the modelled orders of a set are rotated.
MaxRotations == 2

\* list(set(xs)): each element once, in an order the hash seed of the run
\* decides; the orders modelled are the first occurrences and their reversal,
\* each rotated by 0..MaxRotations places.
SetOrders(xs) ==
    LET d == Dedup(xs, <<>>) IN
    IF d = <<>> THEN {<<>>}
    ELSE {Rotate(d, r) : r \in 0..MaxRotations}
         \cup {Rotate(Reverse(d), r) : r \in 0..MaxRotations}

\* [c for c in xs if " " not in c]
RECURSIVE NoSpace(_)
NoSpace(xs) ==
    IF xs = <<>> THEN <<>>
    ELSE (IF HasSpace(Head(xs)) THEN <<>> ELSE <<Head(xs)>>) \o NoSpace(Tail(xs))

\* [c for c in xs if c not in start]
RECURSIVE NotIn(_, _)
NotIn(xs, start) ==
    IF xs = <<>> THEN <<>>
    ELSE (IF \E i \in 1..Len(start) : start[i] = Head(xs) THEN <<>> ELSE <<Head(xs)>>) \o NotIn(Tail(xs), start)

\* get_all_column_names, lines 183-184: start + end, end sorted from the
\* columns that are not in start.
StartAndEnd(all, start) == start \o sorted(NotIn(all, start))

\* get_all_column_names, lines 182-184, for one order of the set.
OrderColumns(all) == StartAndEnd(all, sorted(NoSpace(all)))
\* survey.py _INVESTIGATE: the fixed metadata column names.
INVESTIGATE ==
    <<
     \* date_created
     <<"d", "a", "t", "e", "_", "c", "r", "e", "a", "t", "e", "d">>,
     \* date_modified
     <<"d", "a", "t", "e", "_", "m", "o", "d", "i", "f", "i", "e", "d">>,
     \* response_id
     <<"r", "e", "s", "p", "o", "n", "s", "e", "_", "i", "d">>,
     \* response_status
     <<"r", "e", "s", "p", "o", "n", "s", "e", "_", "s", "t", "a", "t", "u", "s">>,
     \* In what ZIP code is your home located? (enter 5-digit ZIP...
     <<"I", "n", " ", "w", "h", "a", "t", " ", "Z", "I", "P", " ", "c", "o", "d", "e",
       " ", "i", "s", " ", "y", "o", "u", "r", " ", "h", "o", "m", "e", " ", "l", "o",
       "c", "a", "t", "e", "d", "?", " ", "(", "e", "n", "t", "e", "r", " ", "5", "-",
       "d", "i", "g", "i", "t", " ", "Z", "I", "P", " ", "c", "o", "d", "e", ";", " ",
       "f", "o", "r", " ", "e", "x", "a", "m", "p", "l", "e", ",", " ", "0", "0", "5",
       "4", "4", " ", "o", "r", " ", "9", "4", "3", "0", "5", ")">>,
     \* What is your age?
     <<"W", "h", "a", "t", " ", "i", "s", " ", "y", "o", "u", "r", " ", "a", "g", "e",
       "?">>,
     \* How many COVID-19 vaccine doses have you received?
     <<"H", "o", "w", " ", "m", "a", "n", "y", " ", "C", "O", "V", "I", "D", "-", "1",
       "9", " ", "v", "a", "c", "c", "i", "n", "e", " ", "d", "o", "s", "e", "s", " ",
       "h", "a", "v", "e", " ", "y", "o", "u", " ", "r", "e", "c", "e", "i", "v", "e",
       "d", "?">>,
     \* Over the past month, on an average day, about how many pe...
     <<"O", "v", "e", "r", " ", "t", "h", "e", " ", "p", "a", "s", "t", " ", "m", "o",
       "n", "t", "h", ",", " ", "o", "n", " ", "a", "n", " ", "a", "v", "e", "r", "a",
       "g", "e", " ", "d", "a", "y", ",", " ", "a", "b", "o", "u", "t", " ", "h", "o",
       "w", " ", "m", "a", "n", "y", " ", "p", "e", "o", "p", "l", "e", " ", "(", "i",
       "n", "c", "l", "u", "d", "i", "n", "g", " ", "f", "a", "m", "i", "l", "y", " ",
       "m", "e", "m", "b", "e", "r", "s", ")", " ", "h", "a", "v", "e", " ", "y", "o",
       "u", " ", "h", "a", "d", " ", "c", "l", "o", "s", "e", " ", "c", "o", "n", "t",
       "a", "c", "t", " ", "(", "w", "i", "t", "h", "i", "n", " ", "6", " ", "f", "e",
       "e", "t", ")", " ", "w", "i", "t", "h", "?">>,
     \* For how many days after getting sick will you continue to...
     <<"F", "o", "r", " ", "h", "o", "w", " ", "m", "a", "n", "y", " ", "d", "a", "y",
       "s", " ", "a", "f", "t", "e", "r", " ", "g", "e", "t", "t", "i", "n", "g", " ",
       "s", "i", "c", "k", " ", "w", "i", "l", "l", " ", "y", "o", "u", " ", "c", "o",
       "n", "t", "i", "n", "u", "e", " ", "t", "o", " ", "p", "r", "a", "c", "t", "i",
       "c", "e", " ", "t", "h", "e", "s", "e", " ", "b", "e", "h", "a", "v", "i", "o",
       "r", "s", "?">>,
     \* Optional: would you like to hear more from COVID Near You...
     <<"O", "p", "t", "i", "o", "n", "a", "l", ":", " ", "w", "o", "u", "l", "d", " ",
       "y", "o", "u", " ", "l", "i", "k", "e", " ", "t", "o", " ", "h", "e", "a", "r",
       " ", "m", "o", "r", "e", " ", "f", "r", "o", "m", " ", "C", "O", "V", "I", "D",
       " ", "N", "e", "a", "r", " ", "Y", "o", "u", "?", " ", "S", "u", "b", "m", "i",
       "t", " ", "y", "o", "u", "r", " ", "p", "h", "o", "n", "e", " ", "n", "u", "m",
       "b", "e", "r", " ", "t", "o", " ", "r", "e", "c", "e", "i", "v", "e", " ", "t",
       "e", "x", "t", " ", "m", "e", "s", "s", "a", "g", "e", " ", "r", "e", "m", "i",
       "n", "d", "e", "r", "s", " ", "t", "o", " ", "u", "p", "d", "a", "t", "e", " ",
       "y", "o", "u", "r", " ", "h", "e", "a", "l", "t", "h", " ", "s", "t", "a", "t",
       "u", "s", ",", " ", "g", "e", "t", " ", "i", "n", "f", "o", "r", "m", "a", "t",
       "i", "o", "n", " ", "o", "n", " ", "t", "e", "s", "t", "i", "n", "g", " ", "f",
       "a", "c", "i", "l", "i", "t", "i", "e", "s", ",", " ", "o", "r", " ", "l", "e",
       "a", "r", "n", " ", "a", "b", "o", "u", "t", " ", "i", "m", "p", "o", "r", "t",
       "a", "n", "t", " ", "n", "e", "w", "s", " ", "i", "n", " ", "y", "o", "u", "r",
       " ", "c", "o", "m", "m", "u", "n", "i", "t", "y", ".", " ", "M", "e", "s", "s",
       "a", "g", "e", " ", "a", "n", "d", " ", "d", "a", "t", "a", " ", "r", "a", "t",
       "e", "s", " ", "m", "a", "y", " ", "a", "p", "p", "l", "y", ",", " ", "r", "e",
       "p", "l", "y", " ", "H", "E", "L", "P", " ", "f", "o", "r", " ", "h", "e", "l",
       "p", " ", "o", "r", " ", "S", "T", "O", "P", " ", "t", "o", " ", "c", "a", "n",
       "c", "e", "l", ".", " ", "M", "e", "s", "s", "a", "g", "e", " ", "f", "r", "e",
       "q", "u", "e", "n", "c", "y", " ", "m", "a", "y", " ", "v", "a", "r", "y", ",",
       " ", "b", "u", "t", " ", "e", "x", "p", "e", "c", "t", " ", "4", "/", "m", "o",
       "n", "t", "h", ".", " ", "R", "e", "a", "d", " ", "o", "u", "r", " ", "T", "e",
       "r", "m", "s", " ", "&", " ", "C", "o", "n", "d", "i", "t", "i", "o", "n", "s",
       " ", "a", "n", "d", " ", "P", "r", "i", "v", "a", "c", "y", " ", "P", "o", "l",
       "i", "c", "y", ".">>,
     \* Optional: would you like to hear more from Outbreaks Near...
     <<"O", "p", "t", "i", "o", "n", "a", "l", ":", " ", "w", "o", "u", "l", "d", " ",
       "y", "o", "u", " ", "l", "i", "k", "e", " ", "t", "o", " ", "h", "e", "a", "r",
       " ", "m", "o", "r", "e", " ", "f", "r", "o", "m", " ", "O", "u", "t", "b", "r",
       "e", "a", "k", "s", " ", "N", "e", "a", "r", " ", "M", "e", "?", " ", "S", "u",
       "b", "m", "i", "t", " ", "y", "o", "u", "r", " ", "p", "h", "o", "n", "e", " ",
       "n", "u", "m", "b", "e", "r", " ", "t", "o", " ", "r", "e", "c", "e", "i", "v",
       "e", " ", "t", "e", "x", "t", " ", "m", "e", "s", "s", "a", "g", "e", " ", "r",
       "e", "m", "i", "n", "d", "e", "r", "s", " ", "t", "o", " ", "u", "p", "d", "a",
       "t", "e", " ", "y", "o", "u", "r", " ", "h", "e", "a", "l", "t", "h", " ", "s",
       "t", "a", "t", "u", "s", ",", " ", "g", "e", "t", " ", "i", "n", "f", "o", "r",
       "m", "a", "t", "i", "o", "n", " ", "o", "n", " ", "t", "e", "s", "t", "i", "n",
       "g", " ", "f", "a", "c", "i", "l", "i", "t", "i", "e", "s", ",", " ", "o", "r",
       " ", "l", "e", "a", "r", "n", " ", "a", "b", "o", "u", "t", " ", "i", "m", "p",
       "o", "r", "t", "a", "n", "t", " ", "n", "e", "w", "s", " ", "i", "n", " ", "y",
       "o", "u", "r", " ", "c", "o", "m", "m", "u", "n", "i", "t", "y", ".", " ", "M",
       "e", "s", "s", "a", "g", "e", " ", "a", "n", "d", " ", "d", "a", "t", "a", " ",
       "r", "a", "t", "e", "s", " ", "m", "a", "y", " ", "a", "p", "p", "l", "y", ",",
       " ", "r", "e", "p", "l", "y", " ", "H", "E", "L", "P", " ", "f", "o", "r", " ",
       "h", "e", "l", "p", " ", "o", "r", " ", "S", "T", "O", "P", " ", "t", "o", " ",
       "c", "a", "n", "c", "e", "l", ".", " ", "M", "e", "s", "s", "a", "g", "e", " ",
       "f", "r", "e", "q", "u", "e", "n", "c", "y", " ", "m", "a", "y", " ", "v", "a",
       "r", "y", ",", " ", "b", "u", "t", " ", "e", "x", "p", "e", "c", "t", " ", "4",
       "/", "m", "o", "n", "t", "h", ".", " ", "R", "e", "a", "d", " ", "o", "u", "r",
       " ", "T", "e", "r", "m", "s", " ", "&", " ", "C", "o", "n", "d", "i", "t", "i",
       "o", "n", "s", " ", "a", "n", "d", " ", "P", "r", "i", "v", "a", "c", "y", " ",
       "P", "o", "l", "i", "c", "y", ".">>,
     \* What was your highest recorded temperature, in degrees Fa...
     <<"W", "h", "a", "t", " ", "w", "a", "s", " ", "y", "o", "u", "r", " ", "h", "i",
       "g", "h", "e", "s", "t", " ", "r", "e", "c", "o", "r", "d", "e", "d", " ", "t",
       "e", "m", "p", "e", "r", "a", "t", "u", "r", "e", ",", " ", "i", "n", " ", "d",
       "e", "g", "r", "e", "e", "s", " ", "F", "a", "h", "r", "e", "n", "h", "e", "i",
       "t", "?">>,
     \* About how many unused at-home COVID-19 tests do you curre...
     <<"A", "b", "o", "u", "t", " ", "h", "o", "w", " ", "m", "a", "n", "y", " ", "u",
       "n", "u", "s", "e", "d", " ", "a", "t", "-", "h", "o", "m", "e", " ", "C", "O",
       "V", "I", "D", "-", "1", "9", " ", "t", "e", "s", "t", "s", " ", "d", "o", " ",
       "y", "o", "u", " ", "c", "u", "r", "r", "e", "n", "t", "l", "y", " ", "h", "a",
       "v", "e", " ", "i", "n", " ", "y", "o", "u", "r", " ", "p", "o", "s", "s", "e",
       "s", "s", "i", "o", "n", "?", " ", "(", "P", "l", "e", "a", "s", "e", " ", "e",
       "n", "t", "e", "r", " ", "a", " ", "n", "u", "m", "e", "r", "i", "c", " ", "r",
       "e", "s", "p", "o", "n", "s", "e", ")">>,
     \* Which of the following is your MAIN source of health insu...
     <<"W", "h", "i", "c", "h", " ", "o", "f", " ", "t", "h", "e", " ", "f", "o", "l",
       "l", "o", "w", "i", "n", "g", " ", "i", "s", " ", "y", "o", "u", "r", " ", "M",
       "A", "I", "N", " ", "s", "o", "u", "r", "c", "e", " ", "o", "f", " ", "h", "e",
       "a", "l", "t", "h", " ", "i", "n", "s", "u", "r", "a", "n", "c", "e", " ", "c",
       "o", "v", "e", "r", "a", "g", "e", "?", " ", "-", " ", "O", "t", "h", "e", "r",
       " ", "(", "p", "l", "e", "a", "s", "e", " ", "s", "p", "e", "c", "i", "f", "y",
       ")">>
    >>

(***************************************************************************)
(* The documents the transport hands over: survey details and responses    *)
(***************************************************************************)

\* Question ids and row/choice/other ids: nine-digit tokens.
QId(d) == <<"1", "0", "0", "0", "0", "0", "0", "0", d>>
AId(d) == <<"2", "0", "0", "0", "0", "0", "0", "0", d>>

\* An id no survey detail document declares.
UnknownId == AId("0")

Question(id, family, heading, answers) ==
    [id |-> id, family |-> family, headings |-> <<[heading |-> heading]>>, answers |-> answers]

Option(id, text) == [id |-> id, text |-> text]

\* Survey details A.  Q1 and Q2 share the label "Q"; Q8 is labelled "Q_2";
\* the open_ended questions and the presentation question have no answers block.
DetailsA ==
    [pages |-> <<
        [questions |-> <<
            Question(QId("1"), "open_ended", <<"<", "b", ">", "Q", "<", "/", "b", ">">>, <<>>),
            Question(QId("2"), "open_ended", <<"Q", " ">>, <<>>),
            Question(QId("3"), "single_choice", <<"S">>,
                     << <<"choices", <<Option(AId("1"), <<"A">>), Option(AId("2"), <<"B">>)>> >>,
                        <<"other", Option(AId("6"), <<"O">>)>> >>),
            Question(QId("4"), "multiple_choice", <<"M">>,
                     << <<"choices", <<Option(AId("3"), <<"A">>),
                                       Option(AId("4"), <<"A", "_", "2">>)>> >>,
                        <<"other", Option(AId("7"), <<"O">>)>> >>) >>],
        [questions |-> <<
            Question(QId("5"), "matrix", <<"X">>,
                     << <<"rows", <<Option(AId("8"), <<"R">>)>> >>,
                        <<"choices", <<Option(AId("5"), <<"H">>)>> >> >>),
            Question(QId("6"), "datetime", <<"D">>,
                     << <<"rows", <<Option(AId("9"), <<"T">>)>> >> >>),
            Question(QId("7"), "presentation", <<"P">>, <<>>),
            Question(QId("8"), "open_ended", <<"Q", "_", "2">>, <<>>) >>] >>]

\* Survey details B: one page; Q1 is an open_ended question with rows, no two
\* questions share a label, Q3 has no "other", labels carry markup, entity
\* references and surplus whitespace.
DetailsB ==
    [pages |-> <<
        [questions |-> <<
            Question(QId("1"), "open_ended", <<"Q">>,
                     << <<"rows", <<Option(AId("1"), <<"R">>)>> >> >>),
            Question(QId("2"), "open_ended", <<"Q", " ", "LF", "2">>, <<>>),
            Question(QId("3"), "single_choice", <<"<", "i", ">", "S", "<", "/", "i", ">", " ">>,
                     << <<"choices", <<Option(AId("1"), <<"A", " ">>),
                                       Option(AId("2"), <<"B">>)>> >> >>),
            Question(QId("4"), "multiple_choice", <<"M">>,
                     << <<"choices", <<Option(AId("3"), <<"A">>), Option(AId("4"), <<"B">>)>> >>,
                        <<"other", Option(AId("7"), <<"O">>)>> >>),
            Question(QId("5"), "matrix", <<"X", "&", "a", "m", "p", ";", "Y">>,
                     << <<"rows", <<Option(AId("8"), <<"R">>)>> >>,
                        <<"choices", <<Option(AId("5"), <<"H">>)>> >> >>),
            Question(QId("6"), "datetime", <<"D">>,
                     << <<"rows", <<Option(AId("9"), <<"T">>)>> >> >>),
            Question(QId("7"), "presentation", <<"P">>, <<>>),
            Question(QId("8"), "open_ended", <<"Q", "_", "2">>, <<>>) >>] >>]

DetailDocs == {DetailsA, DetailsB}

\* Survey.get_all_column_names: what a call may assign to all_columns, one
\* sequence for each order of the set (a call that raises assigns nothing).
get_all_column_names(survey) ==
    LET c == ColumnsLoop(DetailQuestions(survey.pages), <<>>) IN
    IF c.exc # "" THEN {}
    ELSE {OrderColumns(all) : all \in SetOrders(INVESTIGATE \o CleanAll(c.val))}


\* Answer entries of a response, by shape.
Choice(c) == << <<"choice_id", c>> >>
Other(o, t) == << <<"other_id", o>>, <<"text", t>> >>
RowChoice(r, c) == << <<"row_id", r>>, <<"choice_id", c>> >>
RowText(r, t) == << <<"row_id", r>>, <<"text", t>> >>
Text(t) == << <<"text", t>> >>

\* An answered question of a response.
Answered(id, answers) == [id |-> id, answers |-> answers]

\* A response document: the four metadata fields and its pages.
Response(n, pages) ==
    [id |-> <<n>>, date_created |-> <<"c", n>>, date_modified |-> <<"m", n>>,
     response_status |-> <<"s", n>>, pages |-> pages]

\* Q1 answered with the empty text, then Q2 with "B".
R1 ==
    Response("1", << [questions |-> <<Answered(QId("1"), <<Text(<<>>)>>),
                                      Answered(QId("2"), <<Text(<<"B">>)>>)>>] >>)

\* Q8 ("Q_2") on one page, then Q1 with "A" and Q2 with "B" on the next.
R2 ==
    Response("2", << [questions |-> <<Answered(QId("8"), <<Text(<<"C">>)>>)>>],
                     [questions |-> <<Answered(QId("1"), <<Text(<<"A">>)>>),
                                      Answered(QId("2"), <<Text(<<"B">>)>>)>>] >>)

\* The presentation question first, then a single choice.
R3 ==
    Response("3", << [questions |-> <<Answered(QId("7"), <<>>),
                                      Answered(QId("3"), <<Choice(AId("1"))>>)>>] >>)

\* A matrix answer whose choice id the survey does not declare.
R4 ==
    Response("4", << [questions |-> <<Answered(QId("5"),
                                               <<RowChoice(AId("8"), UnknownId)>>)>>] >>)

\* Multiple choice with two choices and the other text; matrix; datetime.
R5 ==
    Response("5", << [questions |-> <<Answered(QId("4"), <<Choice(AId("3")), Choice(AId("4")),
                                                           Other(AId("7"), <<"Z">>)>>)>>],
                     [questions |-> <<Answered(QId("5"), <<RowChoice(AId("8"), AId("5"))>>),
                                      Answered(QId("6"), <<RowText(AId("9"), <<"W">>)>>)>>] >>)

\* No answered question: one page without questions.
R6 == Response("6", << [questions |-> <<>>] >>)

\* The other text of a single choice; Q1 answered with null, then Q2 with "B".
R7 ==
    Response("7", << [questions |-> <<Answered(QId("3"), <<Other(AId("6"), <<"Z">>)>>)>>],
                     [questions |-> <<Answered(QId("1"), <<Text(None)>>),
                                      Answered(QId("2"), <<Text(<<"B">>)>>)>>] >>)

\* Q2 with "B", then the presentation question, then a single choice.
R8 ==
    Response("8", << [questions |-> <<Answered(QId("2"), <<Text(<<"B">>)>>),
                                      Answered(QId("7"), <<>>),
                                      Answered(QId("3"), <<Choice(AId("2"))>>)>>] >>)

\* A single choice whose one value is a text and not an id token.
R9 ==
    Response("9", << [questions |-> <<Answered(QId("3"), <<Text(<<"Z">>)>>)>>] >>)

ResponseDocs == {R1, R2, R3, R4, R5, R6, R7, R8, R9}

\* The most responses a run holds.
MaxResponses == 3

\* Responses per page of the bulk endpoint (per_page), scaled down.
PerPage == 2

\* The runs: every sequence of at most MaxResponses response documents.
Runs == UNION {[1..n -> ResponseDocs] : n \in 0..MaxResponses}

\* The "links" of a page of the bulk endpoint: "next" is there when a further
\* page exists.  The URLs themselves are read by nothing and left empty.
Links(more) ==
    IF more THEN << <<"self", <<>>>>, <<"next", <<>>>> >> ELSE << <<"self", <<>>>> >>

\* The pages the transport delivered for a run: PerPage responses a page, the
\* last page holding the rest, and one empty page for no response at all.
RECURSIVE PagesOf(_)
PagesOf(run) ==
    IF Len(run) <= PerPage THEN <<[data |-> run, links |-> Links(FALSE)]>>
    ELSE <<[data |-> SubSeq(run, 1, PerPage), links |-> Links(TRUE)]>>
         \o PagesOf(SubSeq(run, PerPage + 1, Len(run)))

(***************************************************************************)
(* survey.py: Survey.parse_survey                                          *)
(***************************************************************************)

VARIABLES
    details,              \* Survey.details
    families,             \* Survey.families
    questions,            \* Survey.questions
    answers,              \* Survey.answers
    responses,            \* Survey.responses: the pages fetched
    all_columns,          \* Survey.all_columns, <<>> while not assigned
    parsed_records,       \* Survey.parsed_records, <<>> while not assigned
    pc,                   \* where parse_survey stands
    squish,               \* parse_survey's argument
    todo,                 \* parse_survey's local responses
    done,                 \* how many of them the loop has taken
    row,                  \* the record being assembled
    pending,              \* the answered questions of the response still to come
    processed_question,   \* the local of that name: [bound, items]
    duplicate_suffixes,   \* the local of that name
    records,              \* the local of that name
    error,                \* the exception parse_survey raised, "" when none
    server,               \* the pages of responses the transport holds
    limited,              \* how many "Rate limit reached" replies it has sent
    fetching,             \* where get_all_survey_responses stands
    all_responses,        \* get_all_survey_responses's local of that name
    current_page,         \* get_all_survey_responses's local of that name
    heading,              \* a question heading on its way through the label pipeline
    passes                \* how far through: "raw", "normalized", "renormalized"

vars ==
    <<details, families, questions, answers, responses, all_columns, parsed_records, pc,
      squish, todo, done, row, pending, processed_question, duplicate_suffixes, records,
      error, server, limited, fetching, all_responses, current_page, heading, passes>>

\* The transport and the locals of get_all_survey_responses.
fetched == <<server, limited, fetching, all_responses, current_page>>

\* A heading in the label pipeline.
labelled == <<heading, passes>>

\* What parse_survey and get_all_column_names read and leave alone.
catalog == <<details, families, questions, answers, responses, fetched, labelled>>

locals == <<squish, todo, done, row, pending, processed_question, duplicate_suffixes, records>>

\* The families parse_survey has a branch for.
Registered == {"matrix", "multiple_choice", "single_choice", "open_ended", "datetime"}

\* str(n) for n >= 0
RECURSIVE Str(_)
Str(n) == IF n < 10 THEN <<Ascii[17 + n]>> ELSE Str(n \div 10) \o <<Ascii[17 + (n % 10)]>>

\* FlattenResponses as it would be were a response already seen left out.
RECURSIVE FlattenDistinct(_, _)
FlattenDistinct(pages, acc) ==
    IF pages = <<>> THEN acc ELSE FlattenDistinct(Tail(pages), Dedup(Head(pages).data, acc))

FlattenResponsesDistinct(pages) == FlattenDistinct(pages, <<>>)

\* [response for page in self.responses for response in page["data"]]
RECURSIVE FlattenResponses(_)
FlattenResponses(pages) ==
    IF pages = <<>> THEN <<>> ELSE Head(pages).data \o FlattenResponses(Tail(pages))

\* The row parse_survey starts a response with.
SeedRow(response) ==
    << <<INVESTIGATE[3], response.id>>,
       <<INVESTIGATE[1], response.date_created>>,
       <<INVESTIGATE[2], response.date_modified>>,
       <<INVESTIGATE[4], response.response_status>> >>

\* The questions the two inner loops visit, in order; a page whose
\* "questions" is missing or empty gives none.
RECURSIVE ResponseQuestions(_)
ResponseQuestions(pages) ==
    IF pages = <<>> THEN <<>> ELSE Head(pages).questions \o ResponseQuestions(Tail(pages))

\* Lines 121-134: what processed_question is after the five tests on family.
Dispatch(family, question, previous) ==
    LET r == IF family = "matrix" THEN process_matrix(questions, answers, question)
             ELSE IF family = "multiple_choice"
             THEN process_multiple_choice(questions, answers, question)
             ELSE IF family = "single_choice"
             THEN process_single_choice(questions, answers, question)
             ELSE IF family = "open_ended" THEN process_open_ended(questions, answers, question)
             ELSE process_datetime(questions, answers, question)
    IN  IF family \notin Registered THEN Return(previous)
        ELSE IF r.exc # "" THEN r
        ELSE Return([bound |-> TRUE, items |-> r.val])

\* MergeItem as it would be were the squish test on the stored value left out:
\* a later writer replaces what the column holds.
MergeItemOverwriting(r, dup, k, v, sq) ==
    IF ~DictHas(r, k) \/ sq THEN [row |-> DictSet(r, k, v), dup |-> dup]
    ELSE LET n == (IF DictHas(dup, k) THEN DictGet(dup, k) ELSE 1) + 1
         IN  [row |-> DictSet(r, k \o <<"_">> \o Str(n), v), dup |-> DictSet(dup, k, n)]

\* Lines 136-144: one item of processed_question merged into the row.
MergeItem(r, dup, k, v, sq) ==
    IF ~DictHas(r, k) THEN [row |-> DictSet(r, k, v), dup |-> dup]
    ELSE IF sq
    THEN [row |-> IF DictGet(r, k) = None \/ DictGet(r, k) = <<>> THEN DictSet(r, k, v) ELSE r,
          dup |-> dup]
    ELSE LET n == (IF DictHas(dup, k) THEN DictGet(dup, k) ELSE 1) + 1
             k_suffix == k \o <<"_">> \o Str(n)
         IN  [row |-> DictSet(r, k_suffix, v), dup |-> DictSet(dup, k, n)]

\* Line 135: for k, v in processed_question.items()
RECURSIVE MergeLoop(_, _, _, _)
MergeLoop(items, r, dup, sq) ==
    IF items = <<>> THEN [row |-> r, dup |-> dup]
    ELSE LET m == MergeItem(r, dup, Head(items)[1], Head(items)[2], sq) IN
         MergeLoop(Tail(items), m.row, m.dup, sq)

Init ==
    /\ details \in DetailDocs
    /\ get_survey(details).exc = ""
    /\ families = get_survey(details).val.families
    /\ questions = get_survey(details).val.questions
    /\ answers = get_survey(details).val.answers
    /\ responses \in {PagesOf(run) : run \in Runs}
    /\ all_columns = <<>>
    /\ parsed_records = <<>>
    /\ pc = "idle"
    /\ squish = TRUE
    /\ todo = <<>>
    /\ done = 0
    /\ row = <<>>
    /\ pending = <<>>
    /\ processed_question = [bound |-> FALSE, items |-> <<>>]
    /\ duplicate_suffixes = <<>>
    /\ records = <<>>
    /\ error = ""
    /\ server = responses
    /\ limited = 0
    /\ fetching = "returned"
    /\ all_responses = responses
    /\ current_page = Len(responses)
    /\ heading = <<>>
    /\ passes = "raw"

\* parse_survey(squish=sq) is called: lines 105-108.
ParseStart ==
    /\ pc = "idle"
    /\ \E sq \in BOOLEAN : squish' = sq
    /\ todo' = FlattenResponses(responses)
    /\ done' = 0
    /\ records' = <<>>
    /\ duplicate_suffixes' = <<>>
    /\ processed_question' = [bound |-> FALSE, items |-> <<>>]
    /\ pc' = "responses"
    /\ UNCHANGED <<catalog, all_columns, parsed_records, row, pending, error>>

\* The loop over the responses takes the next one: lines 109-115.
ParseResponse ==
    /\ pc = "responses"
    /\ done < Len(todo)
    /\ done' = done + 1
    /\ row' = SeedRow(todo[done + 1])
    /\ pending' = ResponseQuestions(todo[done + 1].pages)
    /\ pc' = "questions"
    /\ UNCHANGED <<catalog, all_columns, parsed_records, squish, todo, processed_question,
                   duplicate_suffixes, records, error>>

\* One answered question is dispatched and merged: lines 119-144.
ParseQuestion ==
    /\ pc = "questions"
    /\ pending # <<>>
    /\ LET question == Head(pending)
           known == DictHas(families, question.id)
           d == IF known
                THEN Dispatch(DictGet(families, question.id), question, processed_question)
                ELSE Raise("KeyError")
           exc == IF d.exc # "" THEN d.exc
                  ELSE IF ~d.val.bound THEN "UnboundLocalError"
                  ELSE ""
           m == MergeLoop(d.val.items, row, duplicate_suffixes, squish)
       IN  IF exc # ""
           THEN /\ pc' = "raised"
                /\ error' = exc
                /\ UNCHANGED <<row, pending, processed_question, duplicate_suffixes>>
           ELSE /\ processed_question' = d.val
                /\ row' = m.row
                /\ duplicate_suffixes' = m.dup
                /\ pending' = Tail(pending)
                /\ UNCHANGED <<pc, error>>
    /\ UNCHANGED <<catalog, all_columns, parsed_records, squish, todo, done, records>>

\* The questions of the response are through: line 145.
ParseAppend ==
    /\ pc = "questions"
    /\ pending = <<>>
    /\ records' = Append(records, row)
    /\ pc' = "responses"
    /\ UNCHANGED <<catalog, all_columns, parsed_records, squish, todo, done, row, pending,
                   processed_question, duplicate_suffixes, error>>

\* The loop is through: line 146.
ParseFinish ==
    /\ pc = "responses"
    /\ done = Len(todo)
    /\ parsed_records' = records
    /\ pc' = "done"
    /\ UNCHANGED <<catalog, all_columns, locals, error>>

\* Survey.get_all_column_names, called before or after parse_survey.
GetAllColumnNames ==
    /\ pc \in {"idle", "done", "raised"}
    /\ all_columns' \in get_all_column_names(details)
    /\ UNCHANGED <<catalog, parsed_records, pc, locals, error>>

\* parse_survey alone.
NextParse ==
    \/ ParseStart
    \/ ParseResponse
    \/ ParseQuestion
    \/ ParseAppend
    \/ ParseFinish

\* A Survey of any survey details and any run, on which parse_survey is called.
Spec == Init /\ [][NextParse]_vars

\* The most responses of a run on which both operations are followed.
MaxIndexedResponses == 1

InitIndexed == Init /\ Len(FlattenResponses(responses)) <= MaxIndexedResponses

\* parse_survey and get_all_column_names, in any order.
NextIndexed ==
    \/ NextParse
    \/ GetAllColumnNames

\* A Survey of any survey details and a short run, on which parse_survey and
\* get_all_column_names are called.
SpecIndexed == InitIndexed /\ [][NextIndexed]_vars

(***************************************************************************)
(* client.py and utils.py: the label pipeline of a question heading        *)
(***************************************************************************)

\* What Client.get_survey makes of a heading: strip_tags when the question is
\* registered, clean_column when the dicts are cleaned.
normalize(text) == clean_column(strip_tags(text))

\* The pieces headings are made of: letters, whitespace, a tag, entity
\* references.
Pieces ==
    { <<"a">>, <<"b">>, <<" ">>, <<"NBSP">>, <<"<", "b", ">">>,
      <<"&", "l", "t", ";">>, <<"&", "g", "t", ";">>, <<"&", "a", "m", "p", ";">> }

\* The most pieces of a heading.
MaxPieces == 3

RECURSIVE Concat(_)
Concat(ps) == IF ps = <<>> THEN <<>> ELSE Head(ps) \o Concat(Tail(ps))

Headings == {Concat(ps) : ps \in UNION {[1..n -> Pieces] : n \in 0..MaxPieces}}

\* parse_survey is not running and nothing is assigned yet.
AtRest ==
    /\ all_columns = <<>>
    /\ parsed_records = <<>>
    /\ pc = "idle"
    /\ squish = TRUE
    /\ todo = <<>>
    /\ done = 0
    /\ row = <<>>
    /\ pending = <<>>
    /\ processed_question = [bound |-> FALSE, items |-> <<>>]
    /\ duplicate_suffixes = <<>>
    /\ records = <<>>
    /\ error = ""

\* No Survey yet: nothing fetched, no catalog.
NoSurvey ==
    /\ details = [pages |-> <<>>]
    /\ families = <<>>
    /\ questions = <<>>
    /\ answers = <<>>
    /\ responses = <<>>
    /\ server = <<>>
    /\ limited = 0
    /\ fetching = "idle"
    /\ all_responses = <<>>
    /\ current_page = 1

InitLabel ==
    /\ NoSurvey
    /\ AtRest
    /\ heading \in Headings
    /\ passes = "raw"

\* The pipeline is applied to the heading; applied once more to its result.
Normalize ==
    /\ passes \in {"raw", "normalized"}
    /\ heading' = normalize(heading)
    /\ passes' = IF passes = "raw" THEN "normalized" ELSE "renormalized"
    /\ UNCHANGED <<details, families, questions, answers, responses, fetched, all_columns,
                   parsed_records, pc, locals, error>>

NextLabel == Normalize

\* A heading of any pieces, on which the label pipeline is applied twice.
SpecLabel == InitLabel /\ [][NextLabel]_vars

(***************************************************************************)
(* survey.py: Survey.get_all_survey_responses and the transport            *)
(***************************************************************************)

\* The response documents the transport serves in the fetch.
FetchDocs == {R1, R6}

\* The most responses the transport holds.
MaxFetched == 5

\* The most "Rate limit reached" replies the transport sends in one fetch.
MaxRateLimits == 2

FetchRuns == UNION {[1..n -> FetchDocs] : n \in 0..MaxFetched}

\* The transport may answer "Rate limit reached" after n such replies.
MayLimit(n) == n < MaxRateLimits

\* A transport that counts no reply against its limit.
Unspent(n) == n

\* The count of "Rate limit reached" replies after one more.
Spent(n) == n + 1

\* "next" not in responses["links"].keys()
LastPage(reply) == ~DictHas(reply.links, "next")

\* The page counter that is never advanced.
SamePage(page) == page

\* current_page += 1
NextPage(page) == page + 1

\* A Survey fresh from Client.get_survey, responses not fetched yet, and a
\* transport holding the pages of some run.
InitFetch ==
    /\ details \in DetailDocs
    /\ get_survey(details).exc = ""
    /\ families = get_survey(details).val.families
    /\ questions = get_survey(details).val.questions
    /\ answers = get_survey(details).val.answers
    /\ responses = <<>>
    /\ AtRest
    /\ server \in {PagesOf(run) : run \in FetchRuns}
    /\ limited = 0
    /\ fetching = "idle"
    /\ all_responses = <<>>
    /\ current_page = 1
    /\ heading = <<>>
    /\ passes = "raw"

\* What the fetch leaves alone.
unfetched ==
    <<details, families, questions, answers, all_columns, parsed_records, pc, locals, labelled>>

\* get_all_survey_responses is called: lines 79-81.
GetAllSurveyResponses ==
    /\ fetching = "idle"
    /\ all_responses' = <<>>
    /\ current_page' = 1
    /\ fetching' = "loop"
    /\ UNCHANGED <<unfetched, responses, error, server, limited>>

\* The loop asks the transport for current_page: lines 82-84, up to the
\* request get_survey_responses sends.
RequestPage ==
    /\ fetching = "loop"
    /\ fetching' = "requested"
    /\ UNCHANGED <<unfetched, responses, error, server, limited, all_responses, current_page>>

\* The reply is the error "Rate limit reached": lines 85-89, sleep and
\* continue.
ReplyRateLimited ==
    /\ fetching = "requested"
    /\ MayLimit(limited)
    /\ limited' = Spent(limited)
    /\ fetching' = "loop"
    /\ UNCHANGED <<unfetched, responses, error, server, all_responses, current_page>>

\* The reply is any other error: lines 90-92.
ReplyRejected ==
    /\ fetching = "requested"
    /\ error' = "ValueError"
    /\ fetching' = "raised"
    /\ UNCHANGED <<unfetched, responses, server, limited, all_responses, current_page>>

\* The reply is the page asked for: lines 93-102.
ReplyPage ==
    /\ fetching = "requested"
    /\ current_page <= Len(server)
    /\ LET reply == server[current_page] IN
       /\ all_responses' = Append(all_responses, reply)
       /\ IF LastPage(reply)
          THEN /\ responses' = all_responses'
               /\ fetching' = "returned"
               /\ UNCHANGED current_page
          ELSE /\ current_page' = NextPage(current_page)
               /\ fetching' = "loop"
               /\ UNCHANGED responses
    /\ UNCHANGED <<unfetched, error, server, limited>>

\* The reply is a page without "links": lines 93-101, appended and then the
\* KeyError of responses["links"] raised again.
ReplyMalformed ==
    /\ fetching = "requested"
    /\ current_page <= Len(server)
    /\ all_responses' = Append(all_responses, [data |-> server[current_page].data])
    /\ error' = "KeyError"
    /\ fetching' = "raised"
    /\ UNCHANGED <<unfetched, responses, server, limited, current_page>>

NextFetch ==
    \/ GetAllSurveyResponses
    \/ RequestPage
    \/ ReplyRateLimited
    \/ ReplyRejected
    \/ ReplyPage
    \/ ReplyMalformed

\* A fresh Survey on which get_all_survey_responses is called, with a
\* transport that may answer any request with an error.
SpecFetch == InitFetch /\ [][NextFetch]_vars

\* The same, the loop and the transport never stopping while a step is
\* possible: the loop has no exit but return and raise, and requests.get
\* returns.
SpecFetchLive == SpecFetch /\ WF_vars(NextFetch)

(***************************************************************************)
(* What the claims speak of                                                *)
(***************************************************************************)

IsEmpty(v) == v = <<>> \/ v = None

\* The answered questions of the first i responses of the run, in the order
\* parse_survey visits them.
RECURSIVE RunQuestions(_)
RunQuestions(i) ==
    IF i = 0 THEN <<>> ELSE RunQuestions(i - 1) \o ResponseQuestions(todo[i].pages)

\* The question's family is one parse_survey has a branch for.
HasBranch(question) ==
    DictHas(families, question.id) /\ DictGet(families, question.id) \in Registered

\* The partial record a question of a registered family yields.
PartialOf(question) ==
    Dispatch(DictGet(families, question.id), question, [bound |-> FALSE, items |-> <<>>]).val.items

\* The question whose partial record is merged when the p-th question of the
\* run is reached: the question itself, or for a family without a branch the
\* last question before it that has one.
MergedAt(qs, p) ==
    qs[CHOOSE j \in 1..p : HasBranch(qs[j]) /\ \A m \in (j + 1)..p : ~HasBranch(qs[m])]

\* The writers of column k in the i-th response: 0 for the seeded metadata,
\* and the places in the run of the questions whose merge writes k.
Writers(i, k) ==
    LET qs == RunQuestions(i)
        first == Len(RunQuestions(i - 1)) + 1
    IN  {p \in first..Len(qs) : DictHas(PartialOf(MergedAt(qs, p)), k)}
        \cup (IF DictHas(SeedRow(todo[i]), k) THEN {0} ELSE {})

\* The value writer p hands to column k of the i-th response.
Written(i, k, p) ==
    IF p = 0 THEN DictGet(SeedRow(todo[i]), k)
    ELSE DictGet(PartialOf(MergedAt(RunQuestions(i), p)), k)

\* The columns some writer of the i-th response writes.
WrittenColumns(i) ==
    LET qs == RunQuestions(i)
        first == Len(RunQuestions(i - 1)) + 1
    IN  Keys(SeedRow(todo[i]))
        \cup UNION {Keys(PartialOf(MergedAt(qs, p))) : p \in first..Len(qs)}

\* C1: under squish every column of an assembled record holds the value of
\* its first writer with a non-empty value, and when every writer's value is
\* empty the value of the last one; the record has exactly the written columns.
C1_SquishFirstNonEmptyWins ==
    (squish /\ pc = "responses" /\ records # <<>>) =>
        LET i == Len(records)
            rec == records[i]
        IN  /\ Keys(rec) = WrittenColumns(i)
            /\ \A k \in Keys(rec) :
                   LET w == Writers(i, k)
                       full == {p \in w : ~IsEmpty(Written(i, k, p))}
                       winner == IF full # {}
                                 THEN CHOOSE p \in full : \A o \in full : p <= o
                                 ELSE CHOOSE p \in w : \A o \in w : o <= p
                   IN  DictGet(rec, k) = Written(i, k, winner)

\* C1 witness: a record assembled under squish in which a column has two
\* writers with different non-empty values and holds the first one's, and a
\* record in which a column's first writer is empty and it holds the later one's.
C1_Witness ==
    /\ squish /\ pc = "done"
    /\ \E i \in 1..Len(parsed_records) : \E k \in Keys(parsed_records[i]) :
           \E p, o \in Writers(i, k) :
               /\ p < o
               /\ ~IsEmpty(Written(i, k, p))
               /\ ~IsEmpty(Written(i, k, o))
               /\ Written(i, k, p) # Written(i, k, o)
               /\ DictGet(parsed_records[i], k) = Written(i, k, p)
    /\ \E i \in 1..Len(parsed_records) : \E k \in Keys(parsed_records[i]) :
           \E p, o \in Writers(i, k) :
               /\ p < o
               /\ IsEmpty(Written(i, k, p))
               /\ \A m \in Writers(i, k) : m < o => IsEmpty(Written(i, k, m))
               /\ ~IsEmpty(Written(i, k, o))
               /\ DictGet(parsed_records[i], k) = Written(i, k, o)

\* The suffixed name the second writer of column k is stored under.
Second(k) == k \o <<"_", "2">>

\* The questions of the i-th response that have a branch and yield column k,
\* by their place in the run.
QuestionWriters(i, k) ==
    LET qs == RunQuestions(i)
        first == Len(RunQuestions(i - 1)) + 1
    IN  {p \in first..Len(qs) : HasBranch(qs[p]) /\ DictHas(PartialOf(qs[p]), k)}

\* Every answered question of the i-th response has a branch.
AllBranched(i) ==
    \A p \in 1..Len(ResponseQuestions(todo[i].pages)) :
        HasBranch(ResponseQuestions(todo[i].pages)[p])

\* C2: under enumerate, a record of a response in which exactly two answered
\* questions yield column col holds col with the first one's value and col_2
\* with the second one's, in the first response and in every later one.
C2_EnumerateSecondWriterIsCol2 ==
    (~squish /\ pc = "responses" /\ records # <<>> /\ AllBranched(Len(records))) =>
        LET i == Len(records)
            rec == records[i]
        IN  \A k \in WrittenColumns(i) :
                Cardinality(QuestionWriters(i, k)) = 2 =>
                    LET w == QuestionWriters(i, k)
                        p == CHOOSE x \in w : \A o \in w : x <= o
                        o == CHOOSE x \in w : \A y \in w : y <= x
                    IN  /\ DictHas(rec, k)
                        /\ DictGet(rec, k) = Written(i, k, p)
                        /\ DictHas(rec, Second(k))
                        /\ DictGet(rec, Second(k)) = Written(i, k, o)

\* The value an answer entry of a question of the given family produces.
EntryValue(family, entry) ==
    IF family \in {"open_ended", "datetime"} THEN DictGet(entry, "text")
    ELSE IF family = "matrix" THEN DictGet(answers, DictGet(entry, "choice_id"))
    ELSE IF Truthy(entry, "other_id") THEN DictGet(entry, "text")
    ELSE DictGet(answers, DictGet(entry, "choice_id"))

\* The values the answer entries of a question produce (open_ended and
\* datetime read the first entry only).
EntryValues(question) ==
    LET family == DictGet(families, question.id)
        n == IF family \in {"open_ended", "datetime"} THEN 1 ELSE Len(question.answers)
    IN  {EntryValue(family, question.answers[e]) : e \in 1..n}

\* C3: under enumerate, every value an answer entry of the response produces
\* is a value of some column of the record.
C3_EnumerateKeepsEveryValue ==
    (~squish /\ pc = "responses" /\ records # <<>> /\ AllBranched(Len(records))) =>
        LET i == Len(records)
            rec == records[i]
            qs == ResponseQuestions(todo[i].pages)
        IN  \A p \in 1..Len(qs) : \A v \in EntryValues(qs[p]) :
                \E c \in 1..Len(rec) : rec[c][2] = v

\* The response refers to a row, choice or other id the catalog lacks.
RefersUnknown(response) ==
    LET qs == ResponseQuestions(response.pages) IN
    \E p \in 1..Len(qs) : \E e \in 1..Len(qs[p].answers) :
        \E f \in {"row_id", "choice_id", "other_id"} :
            DictHas(qs[p].answers[e], f) /\ ~DictHas(answers, DictGet(qs[p].answers[e], f))

\* Every answered question of the response has a branch, and none refers to
\* an id the catalog lacks.
Sound(response) ==
    /\ ~RefersUnknown(response)
    /\ \A p \in 1..Len(ResponseQuestions(response.pages)) :
           HasBranch(ResponseQuestions(response.pages)[p])

\* The response ids of the sound responses of the run, in order.
RECURSIVE SoundIds(_)
SoundIds(rs) ==
    IF rs = <<>> THEN <<>>
    ELSE (IF Sound(Head(rs)) THEN <<Head(rs).id>> ELSE <<>>) \o SoundIds(Tail(rs))

\* C4: a run in which a response that refers to an unknown id stands between
\* sound responses ends with the records of the sound responses, in order,
\* and without the one of the response that refers to the unknown id.
C4_BadResponseAloneIsRejected ==
    (/\ pc \in {"done", "raised"}
     /\ \A i \in 1..Len(todo) : Sound(todo[i]) \/ RefersUnknown(todo[i])
     /\ \E i, j, l \in 1..Len(todo) :
            i < j /\ j < l /\ Sound(todo[i]) /\ RefersUnknown(todo[j]) /\ Sound(todo[l]))
        => /\ pc = "done"
           /\ Len(parsed_records) = Len(SoundIds(todo))
           /\ \A n \in 1..Len(parsed_records) :
                  DictGet(parsed_records[n], INVESTIGATE[3]) = SoundIds(todo)[n]

\* C5: the step that reaches an answered question of a family without a
\* branch raises nothing and leaves the record being assembled as it was.
C5_UnregisteredFamilyIsSkipped ==
    [][(/\ pc = "questions"
        /\ pending # <<>>
        /\ DictHas(families, Head(pending).id)
        /\ DictGet(families, Head(pending).id) \notin Registered)
           => (pc' = "questions" /\ row' = row)]_vars

\* C6: every column of every record parse_survey produces under squish is
\* one of all_columns.
C6_IndexCoversRecords ==
    (squish /\ pc = "done" /\ all_columns # <<>>) =>
        \A i \in 1..Len(parsed_records) : \A k \in Keys(parsed_records[i]) :
            \E c \in 1..Len(all_columns) : all_columns[c] = k

\* Two records hold the same columns with the same values.
SameRecord(a, b) == Keys(a) = Keys(b) /\ \A k \in Keys(a) : DictGet(a, k) = DictGet(b, k)

\* C7: under squish a response yields the same record wherever it stands in
\* the run, whatever the responses before it.
C7_RecordDependsOnResponseOnly ==
    squish => \A i, j \in 1..Len(records) :
                  todo[i] = todo[j] => SameRecord(records[i], records[j])

\* The i-th response the transport delivered: pages in fetch order, each but
\* the last holding PerPage responses.
Delivered(i) == responses[((i - 1) \div PerPage) + 1].data[((i - 1) % PerPage) + 1]

\* How many responses the transport delivered.
DeliveredCount ==
    IF responses = <<>> THEN 0
    ELSE (Len(responses) - 1) * PerPage + Len(responses[Len(responses)].data)

\* C8: when parse_survey ends without an exception, parsed_records has one
\* record for each delivered response, the i-th carrying the four metadata
\* values of the i-th response.
C8_OneRecordPerResponseInOrder ==
    pc = "done" =>
        /\ Len(parsed_records) = DeliveredCount
        /\ \A i \in 1..Len(parsed_records) :
               /\ DictGet(parsed_records[i], INVESTIGATE[3]) = Delivered(i).id
               /\ DictGet(parsed_records[i], INVESTIGATE[1]) = Delivered(i).date_created
               /\ DictGet(parsed_records[i], INVESTIGATE[2]) = Delivered(i).date_modified
               /\ DictGet(parsed_records[i], INVESTIGATE[4]) = Delivered(i).response_status

\* C8 witness: a finished run of more than one page in which a response
\* occurs twice, once on each of two pages, and has a record for each.
C8_Witness ==
    /\ pc = "done"
    /\ Len(responses) > 1
    /\ \E i, j \in 1..Len(parsed_records) :
           /\ i <= PerPage /\ j > PerPage
           /\ Delivered(i) = Delivered(j)
           /\ DictGet(parsed_records[i], INVESTIGATE[3]) = Delivered(i).id
           /\ DictGet(parsed_records[j], INVESTIGATE[3]) = Delivered(i).id

\* C9: once assigned, all_columns is the one sequence every order of the set
\* leads to; no name is in it twice, every metadata name is in it, the names
\* without a space come first and the names with a space after them, each
\* group ascending in code-point order.
C9_ColumnIndexOrdered ==
    all_columns # <<>> =>
        /\ \A s \in get_all_column_names(details) : s = all_columns
        /\ \A i, j \in 1..Len(all_columns) : i # j => all_columns[i] # all_columns[j]
        /\ \A m \in 1..Len(INVESTIGATE) :
               \E i \in 1..Len(all_columns) : all_columns[i] = INVESTIGATE[m]
        /\ \A i \in 1..(Len(all_columns) - 1) :
               \/ ~HasSpace(all_columns[i]) /\ HasSpace(all_columns[i + 1])
               \/ /\ HasSpace(all_columns[i]) = HasSpace(all_columns[i + 1])
                  /\ StrLess(all_columns[i], all_columns[i + 1])

\* C9 witness: all_columns is assigned and holds names of both groups, among
\* them names that come from the survey details.
C9_Witness ==
    /\ all_columns # <<>>
    /\ Len(all_columns) > Len(INVESTIGATE)
    /\ \E i, j \in 1..Len(all_columns) :
           /\ ~HasSpace(all_columns[i]) /\ HasSpace(all_columns[j])
           /\ \A m \in 1..Len(INVESTIGATE) :
                  all_columns[i] # INVESTIGATE[m] /\ all_columns[j] # INVESTIGATE[m]

\* A token of nine digits.
NineDigits(v) ==
    Len(v) = 9 /\ \A i \in 1..9 : v[i] \in {"0", "1", "2", "3", "4", "5", "6", "7", "8", "9"}

\* A single_choice question each of whose answer entries holds one value, a
\* nine-digit token that is a key of answers.
ChoosesKnownTokens(question) ==
    /\ DictHas(families, question.id)
    /\ DictGet(families, question.id) = "single_choice"
    /\ question.answers # <<>>
    /\ \A e \in 1..Len(question.answers) :
           /\ Len(question.answers[e]) = 1
           /\ question.answers[e][1][1] = "choice_id"
           /\ NineDigits(question.answers[e][1][2])
           /\ DictHas(answers, question.answers[e][1][2])

\* C10: the step that reaches such a question leaves as its partial record
\* the one column label(question), holding the catalog's label of the token
\* and not the token.
C10_SingleChoiceTokenResolved ==
    [][(pc = "questions" /\ pending # <<>> /\ ChoosesKnownTokens(Head(pending))) =>
          LET question == Head(pending)
              token == question.answers[Len(question.answers)][1][2]
          IN  /\ pc' = "questions"
              /\ processed_question'.bound
              /\ processed_question'.items =
                     << <<DictGet(questions, question.id), DictGet(answers, token)>> >>
              /\ processed_question'.items[1][2] # token]_vars

\* C10 witness: a single choice of a known nine-digit token has been
\* dispatched and its partial record holds the label of the token.
C10_Witness ==
    /\ pc = "questions"
    /\ processed_question.bound
    /\ \E p \in 1..Len(ResponseQuestions(todo[done].pages)) :
           LET question == ResponseQuestions(todo[done].pages)[p] IN
           /\ Len(pending) = Len(ResponseQuestions(todo[done].pages)) - p
           /\ ChoosesKnownTokens(question)
           /\ processed_question.items =
                  << <<DictGet(questions, question.id),
                       DictGet(answers, question.answers[1][1][2])>> >>

\* A single_choice question with one answer entry, of exactly one key, whose
\* value is not an id token of nine digits.
ChoosesLiteral(question) ==
    /\ DictHas(families, question.id)
    /\ DictGet(families, question.id) = "single_choice"
    /\ Len(question.answers) = 1
    /\ Len(question.answers[1]) = 1
    /\ question.answers[1][1][1] # "other_id"
    /\ ~NineDigits(question.answers[1][1][2])

\* C11: the step that reaches a single_choice question whose one entry holds
\* one value that is not an id token raises nothing and leaves as its partial
\* record the one column label(question), holding that value as it is.
C11_SingleChoiceLiteralKept ==
    [][(pc = "questions" /\ pending # <<>> /\ ChoosesLiteral(Head(pending))) =>
          LET question == Head(pending) IN
          /\ pc' = "questions"
          /\ error' = ""
          /\ processed_question'.bound
          /\ processed_question'.items =
                 << <<DictGet(questions, question.id), question.answers[1][1][2]>> >>]_vars

\* C12: the label pipeline is idempotent: applied to a heading it has already
\* been applied to, it leaves that heading as it is.
C12_NormalizeIdempotent ==
    [][passes = "normalized" => heading' = heading]_vars

\* The ids of all questions on all pages of the detail document.
QuestionIds ==
    {DetailQuestions(details.pages)[i].id : i \in 1..Len(DetailQuestions(details.pages))}

\* The rows, choices and other entry a question declares, in that order.
EntriesOf(question) ==
    (IF DictHas(question.answers, "rows") THEN DictGet(question.answers, "rows") ELSE <<>>)
    \o (IF DictHas(question.answers, "choices") THEN DictGet(question.answers, "choices")
        ELSE <<>>)
    \o (IF DictHas(question.answers, "other") THEN <<DictGet(question.answers, "other")>>
        ELSE <<>>)

\* The entries of all questions, in document order.
RECURSIVE AllEntries(_)
AllEntries(qs) == IF qs = <<>> THEN <<>> ELSE EntriesOf(Head(qs)) \o AllEntries(Tail(qs))

\* C13: families and questions have exactly the ids of all questions as keys,
\* answers exactly the ids of all rows, choices and other entries of all
\* questions, and an id declared more than once has the label of its last
\* declaration.
C13_CatalogKeysAndLastLabel ==
    LET es == AllEntries(DetailQuestions(details.pages)) IN
    /\ Keys(families) = QuestionIds
    /\ Keys(questions) = QuestionIds
    /\ Keys(answers) = {es[i].id : i \in 1..Len(es)}
    /\ \A i \in 1..Len(es) :
           (\A j \in (i + 1)..Len(es) : es[j].id # es[i].id) =>
               DictGet(answers, es[i].id) = clean_column(Strip(es[i].text))

\* C13 witness: a catalog whose detail document has a question without an
\* answers block and an id that two questions of different families declare
\* with different labels, of which answers holds the later.
C13_Witness ==
    LET qs == DetailQuestions(details.pages)
        es == AllEntries(qs)
    IN  /\ \E q \in 1..Len(qs) : qs[q].answers = <<>> /\ DictHas(families, qs[q].id)
        /\ \E i, j \in 1..Len(es) :
               /\ i < j
               /\ es[i].id = es[j].id
               /\ clean_column(Strip(es[i].text)) # clean_column(Strip(es[j].text))
               /\ \A m \in (j + 1)..Len(es) : es[m].id # es[j].id
               /\ DictGet(answers, es[j].id) = clean_column(Strip(es[j].text))

\* The first page of the transport whose links lack "next".
FirstLastPage == CHOOSE n \in 1..Len(server) :
                     LastPage(server[n]) /\ \A m \in 1..(n - 1) : ~LastPage(server[m])

\* C14: a "Rate limit reached" reply appends nothing, leaves the page counter
\* where it is and sends the loop round again; while nothing is raised
\* all_responses is the transport's pages 1, 2, ... in order, each once; and on
\* return responses is exactly the pages 1 .. n, n the first page whose links
\* lack "next".
C14_FetchKeepsPagesInOrder ==
    [][/\ limited' # limited =>
              /\ UNCHANGED <<all_responses, current_page, responses>>
              /\ fetching' = "loop"
       /\ fetching' # "raised" =>
              /\ Len(all_responses') <= Len(server)
              /\ all_responses' = SubSeq(server, 1, Len(all_responses'))
       /\ fetching' \in {"loop", "requested"} => current_page' = Len(all_responses') + 1
       /\ fetching' = "returned" => responses' = SubSeq(server, 1, FirstLastPage)]_vars

\* C14 witness: the fetch has returned three pages or more, having been
\* answered "Rate limit reached" on the way.
C14_Witness ==
    /\ fetching = "returned"
    /\ limited > 0
    /\ Len(responses) >= 3
    /\ responses = server

\* C15: with a transport that answers "Rate limit reached" no more than
\* MaxRateLimits times and whose last page lacks "next",
\* get_all_survey_responses ends: it returns or it raises.
C15_FetchTerminates == <>(fetching \in {"returned", "raised"})

\* C15 witness: the fetch has returned after the transport sent every
\* "Rate limit reached" reply it may send.
C15_Witness ==
    /\ fetching = "returned"
    /\ limited = MaxRateLimits
    /\ responses # <<>>
====
